---- MODULE Spec2Model ----
(***************************************************************************)
(* Model of wg-test (src/src/main.rs): a two-phase generic-netlink         *)
(* transaction.  Phase A resolves the "wireguard" family id with a         *)
(* GetFamily request, Phase B sends a GetDevice dump request tagged with   *)
(* that id, and the collected device messages are printed.                 *)
(*                                                                         *)
(* A datagram is a sequence of frames.  A frame records the netlink type   *)
(* found in its header, the length its header declares, the number of     *)
(* bytes it really occupies in the datagram (size), and its payload.       *)
(* Offsets are byte offsets, as in socket_recv.                            *)
(***************************************************************************)
EXTENDS Integers, Sequences, FiniteSets, TLC

VARIABLES
    pc,         \* position of real_main / socket_recv
    phase,      \* "A" (GetFamily exchange) or "B" (GetDevice exchange)
    buf,        \* socket_recv: the datagram last received (buf[..len])
    offset,     \* socket_recv: parse offset into buf
    messages,   \* socket_recv: the accumulated inner messages
    ret,        \* what the socket_recv call last made returned (none: NoRet)
    family_id,  \* real_main: the resolved family id (0: not resolved yet)
    sent,       \* the requests handed to socket.send, in order
    out,        \* the lines printed on stdout, in order
    reason,     \* why the transaction failed ("" while it has not)
    rx,         \* history: the datagrams received by the current call, in order
    parsed,     \* history: the offsets of buf at which a frame was deserialized
    ended,      \* history: how the last call ended (frames received, messages held)
    interface,  \* Args.interface
    late,       \* history: a datagram the kernel sent for Phase A after the
                \* call of Phase A returned ("none", "queued", "received")
    arg,        \* argument of the function under check (function specifications)
    res         \* its result

vars == <<pc, phase, buf, offset, messages, ret, family_id, sent, out, reason,
          rx, parsed, ended, interface, late, arg, res>>

----------------------------------------------------------------------------
(* Bounds of the model. *)

\* Frames the kernel delivers to one socket_recv call, over all its datagrams.
MaxFrames == 3

\* Allowed-IP entries in one AllowedIps attribute.
MaxIps == 2

\* Attributes in one allowed-IP entry.
MaxIpAttrs == 2

\* Attributes in one device message.
MaxDevAttrs == 2
MaxNameLen == 7

----------------------------------------------------------------------------
(* Netlink framing, as NetlinkMessage::deserialize sees it. *)

\* Size of the netlink header (nlmsghdr): length, type, flags, seq, port id.
HeaderLen == 16

\* Size of the generic netlink header that starts every inner message.
GenlHdrLen == 4

\* GENL_ID_CTRL, the message type of the control family's replies.
GenlIdCtrl == 16

\* Family ids the kernel may have assigned to families.
FamilyIds == {17, 18}

\* The error code of an Error frame; 0 stands for code: None.
ErrCodes == {-19}

NoMsg == [mtype |-> 0, nlas |-> <<>>]

Frame(type, length, size, code, msg, ok) ==
    [type |-> type, length |-> length, size |-> size, code |-> code,
     msg |-> msg, ok |-> ok]

\* Bytes an inner message with these attributes occupies.
InnerSize(nlas) == HeaderLen + GenlHdrLen + 8 * Len(nlas)

NoopFrame    == Frame("Noop", HeaderLen, HeaderLen, 0, NoMsg, TRUE)
OverrunFrame == Frame("Overrun", HeaderLen, HeaderLen, 0, NoMsg, TRUE)
DoneFrame    == Frame("Done", HeaderLen + 4, HeaderLen + 4, 0, NoMsg, TRUE)
ErrorFrame(code) ==
    Frame("Error", 2 * HeaderLen + 4, 2 * HeaderLen + 4, code, NoMsg, TRUE)
InnerFrame(mtype, nlas) ==
    Frame("Inner", InnerSize(nlas), InnerSize(nlas), 0,
          [mtype |-> mtype, nlas |-> nlas], TRUE)

\* The same frame with another declared header length.
Declaring(f, length) == [f EXCEPT !.length = length]
\* The same frame with a payload that its vocabulary cannot decode.
Undecodable(f) == [f EXCEPT !.ok = FALSE]
\* The same frame followed by n bytes that belong to no frame.
Trailed(f, n) == [f EXCEPT !.size = @ + n]

WellFramed(f) == f.length = f.size /\ f.ok
IsTerminator(f) == f.type \in {"Done", "Error"}

RECURSIVE DgLen(_)
\* len: the number of bytes recv_from stored for datagram d.
DgLen(d) == IF d = <<>> THEN 0 ELSE Head(d).size + DgLen(Tail(d))

\* Byte offset at which frame i of datagram d starts.
StartOf(d, i) == DgLen(SubSeq(d, 1, i - 1))

\* Index of the frame of d that starts at byte offset o (0: none does).
FrameAt(d, o) ==
    IF \E i \in 1..Len(d) : StartOf(d, i) = o
    THEN CHOOSE i \in 1..Len(d) : StartOf(d, i) = o
    ELSE 0

----------------------------------------------------------------------------
(* Attribute vocabularies. *)

Attr(a, v) == [a |-> a, v |-> v]

\* GenlCtrlAttrs of the replies to GetFamily.
CtrlBodies ==
    { <<Attr("FamilyName", "wireguard"), Attr("FamilyId", 17)>>,
      <<Attr("FamilyId", 18), Attr("FamilyId", 17)>>,
      <<Attr("FamilyName", "wireguard")>> }

\* Length of a WireGuard key ([u8; 32]).
KeyLen == 32

\* A key: KeyLen bytes starting at b.
Key(b) == [i \in 1..KeyLen |-> (b + i - 1) % 256]

----------------------------------------------------------------------------
(* Rendering: wg_public_key, wg_allowed_ips and the print loop of          *)
(* real_main.  A printed line is a string.                                 *)

None == <<>>
Some(v) == <<v>>

\* The alphabet of base64::engine::general_purpose::STANDARD.
B64Alphabet ==
    <<"A", "B", "C", "D", "E", "F", "G", "H", "I", "J", "K", "L", "M", "N", "O", "P",
       "Q", "R", "S", "T", "U", "V", "W", "X", "Y", "Z", "a", "b", "c", "d", "e", "f",
       "g", "h", "i", "j", "k", "l", "m", "n", "o", "p", "q", "r", "s", "t", "u", "v",
       "w", "x", "y", "z", "0", "1", "2", "3", "4", "5", "6", "7", "8", "9", "+", "/">>

B64(n) == B64Alphabet[n + 1]

RECURSIVE Base64(_)
\* STANDARD.encode: three bytes give four characters, the tail is padded.
Base64(s) ==
    IF Len(s) = 0 THEN ""
    ELSE IF Len(s) = 1 THEN
        B64(s[1] \div 4) \o B64((s[1] % 4) * 16) \o "=="
    ELSE IF Len(s) = 2 THEN
        B64(s[1] \div 4) \o B64((s[1] % 4) * 16 + s[2] \div 16)
            \o B64((s[2] % 16) * 4) \o "="
    ELSE
        B64(s[1] \div 4) \o B64((s[1] % 4) * 16 + s[2] \div 16)
            \o B64((s[2] % 16) * 4 + s[3] \div 64) \o B64(s[3] % 64)
            \o Base64(SubSeq(s, 4, Len(s)))

wg_public_key(key) == Base64(key)

\* The value of the last attribute of kind a in attrs (the for loop
\* overwrites found_ip / found_cidr on every match).
LastOf(attrs, a) ==
    LET I == {i \in 1..Len(attrs) : attrs[i].a = a}
    IN IF I = {} THEN None
       ELSE Some(attrs[CHOOSE i \in I : \A j \in I : j <= i].v)

\* AllowedIpEntry, with a missing prefix length defaulted to 32.
AllowedIpEntryDefaulted(ip) ==
    LET found_ip   == LastOf(ip, "IpAddr")
        found_cidr == LastOf(ip, "Cidr")
    IN IF found_ip = None THEN None
       ELSE IF found_cidr = None THEN Some(found_ip[1] \o "/32")
       ELSE Some(found_ip[1] \o "/" \o ToString(found_cidr[1]))

\* The filter_map closure of wg_allowed_ips: None or Some(formatted entry).
AllowedIpEntry(ip) ==
    LET found_ip   == LastOf(ip, "IpAddr")
        found_cidr == LastOf(ip, "Cidr")
    IN IF found_ip = None THEN None
       ELSE IF found_cidr = None THEN None
       ELSE Some(found_ip[1] \o "/" \o ToString(found_cidr[1]))

RECURSIVE wg_allowed_ips(_)
wg_allowed_ips(ips) ==
    IF ips = <<>> THEN <<>>
    ELSE AllowedIpEntry(Head(ips)) \o wg_allowed_ips(Tail(ips))

RECURSIVE Join(_, _)
\* [String]::join(sep)
Join(strs, sep) ==
    IF strs = <<>> THEN ""
    ELSE IF Len(strs) = 1 THEN strs[1]
    ELSE strs[1] \o sep \o Join(Tail(strs), sep)

\* SystemTime::elapsed of ts at time now: None when ts is in the future.
Elapsed(ts, now) == IF ts <= now THEN Some(now - ts) ELSE None

\* The lines one peer attribute prints.
PrintPeerAttr(at, now) ==
    CASE at.a = "PublicKey" ->
            <<"  Public key: " \o wg_public_key(at.v)>>
      [] at.a = "PresharedKey" -> <<"  Preshared key: (hidden)">>
      [] at.a = "Endpoint" -> <<"  Endpoint: " \o at.v>>
      [] at.a = "AllowedIps" ->
            <<"  Allowed ips: " \o Join(wg_allowed_ips(at.v), ", ")>>
      [] at.a = "PersistentKeepalive" /\ at.v # 0 ->
            <<"  KeepAlive: " \o ToString(at.v)>>
      [] at.a = "LastHandshake" /\ at.v # 0 ->
            IF Elapsed(at.v, now) = None THEN <<>>
            ELSE <<"  Last handshake: " \o ToString(Elapsed(at.v, now)[1])
                     \o "s ago">>
      [] OTHER -> <<>>

RECURSIVE PrintPeerAttrs(_, _)
PrintPeerAttrs(attrs, now) ==
    IF attrs = <<>> THEN <<>>
    ELSE PrintPeerAttr(Head(attrs), now) \o PrintPeerAttrs(Tail(attrs), now)

RECURSIVE PrintPeers(_, _)
PrintPeers(peers, now) ==
    IF peers = <<>> THEN <<>>
    ELSE <<"\nPeer:">> \o PrintPeerAttrs(Head(peers), now)
             \o PrintPeers(Tail(peers), now)

\* The lines one device attribute prints.
PrintDeviceAttr(at, now) ==
    CASE at.a = "IfName" -> <<"Interface: " \o at.v>>
      [] at.a = "PrivateKey" -> <<"Private key: (hidden)">>
      [] at.a = "PublicKey" -> <<"Public key: " \o wg_public_key(at.v)>>
      [] at.a = "ListenPort" -> <<"Listen port: " \o ToString(at.v)>>
      [] at.a = "Fwmark" /\ at.v # 0 -> <<"FwMark: " \o ToString(at.v)>>
      [] at.a = "Peers" -> PrintPeers(at.v, now)
      [] OTHER -> <<>>

RECURSIVE PrintDeviceAttrs(_, _)
PrintDeviceAttrs(attrs, now) ==
    IF attrs = <<>> THEN <<>>
    ELSE PrintDeviceAttr(Head(attrs), now)
             \o PrintDeviceAttrs(Tail(attrs), now)

RECURSIVE PrintMessages(_, _)
\* The print loop over the messages Phase B returned.
PrintMessages(msgs, now) ==
    IF msgs = <<>> THEN <<>>
    ELSE PrintDeviceAttrs(Head(msgs).nlas, now)
             \o PrintMessages(Tail(msgs), now)

----------------------------------------------------------------------------
(* NetlinkMessage::<Message>::deserialize, applied to buf[offset..]. *)

DecodeErr == [ok |-> FALSE, type |-> "", length |-> 0, code |-> 0, msg |-> NoMsg]

Packet(type, length, code, msg) ==
    [ok |-> TRUE, type |-> type, length |-> length, code |-> code, msg |-> msg]

\* Fewest payload bytes each payload kind needs to decode.
MinPayload(type) ==
    CASE type = "Inner" -> GenlHdrLen
      [] type \in {"Done", "Error"} -> 4
      [] OTHER -> 0

\* The payload of frame f as decoded from the length - HeaderLen bytes its
\* header declares.  When the declared length cuts the attributes short, the
\* attributes that fit are decoded if the cut falls between two of them;
\* when it reaches into the bytes that follow the frame, those bytes decode
\* as an unknown attribute or not at all.
DecodePayload(f) ==
    IF f.length - HeaderLen < MinPayload(f.type) \/ ~f.ok THEN {DecodeErr}
    ELSE IF f.type # "Inner" \/ f.length = f.size
        THEN {Packet(f.type, f.length, f.code, f.msg)}
    ELSE IF f.length < f.size
        THEN IF (f.length - HeaderLen - GenlHdrLen) % 8 = 0
             THEN {Packet(f.type, f.length, f.code,
                          [f.msg EXCEPT !.nlas = SubSeq(f.msg.nlas, 1,
                              (f.length - HeaderLen - GenlHdrLen) \div 8)])}
             ELSE {DecodeErr}
    ELSE {DecodeErr,
          Packet(f.type, f.length, f.code,
                 [f.msg EXCEPT !.nlas = Append(f.msg.nlas, Attr("Other", 0))])}

\* What the bytes at an offset inside a frame decode to when they are read
\* as a netlink header: any packet that fits the rem bytes left, or an error.
Garbage(rem) ==
    {DecodeErr, Packet("Done", rem, 0, NoMsg)}
    \cup {Packet("Error", rem, c, NoMsg) : c \in ErrCodes}
    \cup {Packet("Noop", l, 0, NoMsg) :
             l \in {x \in {HeaderLen + 4, rem} : x <= rem}}
    \cup {Packet("Inner", rem, 0, [mtype |-> t, nlas |-> <<>>]) :
             t \in FamilyIds}

\* The results deserialize can give for datagram d at byte offset o.
\* NetlinkBuffer::new_checked rejects a buffer shorter than a header, a
\* length field larger than the buffer and a length field smaller than a
\* header; then the payload is decoded by the header's type.
Deserialize(d, o) ==
    LET rem == DgLen(d) - o
        i   == FrameAt(d, o)
    IN IF rem < HeaderLen THEN {DecodeErr}
       ELSE IF i = 0 THEN Garbage(rem)
       ELSE IF rem < d[i].length \/ d[i].length < HeaderLen THEN {DecodeErr}
       ELSE DecodePayload(d[i])

----------------------------------------------------------------------------
(* The kernel's side: the frames and datagrams it may deliver. *)

\* WgDeviceAttrs of the replies to GetDevice.
WgBodies ==
    { <<Attr("IfName", "wg0"), Attr("PrivateKey", Key(9)),
        Attr("ListenPort", 51820)>>,
      <<Attr("PublicKey", Key(1)),
        Attr("Peers", << <<Attr("PublicKey", Key(2)),
                           Attr("PresharedKey", Key(7)),
                           Attr("AllowedIps",
                                << <<Attr("IpAddr", "10.0.0.0"),
                                     Attr("Cidr", 24)>>,
                                   <<Attr("IpAddr", "10.0.0.1")>> >>),
                           Attr("LastHandshake", 60)>> >>)>> }

\* Frames that break the framing or the encoding, built from frame f.
Malformed(f) ==
    { Undecodable(f), Declaring(NoopFrame, 0),
      Declaring(f, f.size + 4), Declaring(f, f.size - 8) }

Terminators == {DoneFrame, ErrorFrame(0)} \cup {ErrorFrame(c) : c \in ErrCodes}

FramesA ==
    {NoopFrame} \cup Terminators
    \cup {InnerFrame(GenlIdCtrl, b) : b \in CtrlBodies}

FramesB ==
    {NoopFrame, OverrunFrame} \cup Terminators
    \cup {InnerFrame(17, b) : b \in WgBodies}
    \cup {InnerFrame(18, <<Attr("IfName", "wg0"), Attr("ListenPort", 51820)>>)}
    \cup Malformed(InnerFrame(17, <<Attr("IfName", "wg0"),
                                    Attr("ListenPort", 51820)>>))
    \cup {Trailed(DoneFrame, 8)}

Frames(ph) == IF ph = "A" THEN FramesA ELSE FramesB

\* Non-empty datagrams of at most n frames.
Datagrams(ph, n) ==
    UNION {[1..k -> Frames(ph)] : k \in 1..n}

RECURSIVE Flatten(_)
\* The frames of a sequence of datagrams, in delivery order.
Flatten(ds) == IF ds = <<>> THEN <<>> ELSE Head(ds) \o Flatten(Tail(ds))

----------------------------------------------------------------------------
(* Requests: NetlinkMessage::from, finalize and socket_send. *)

\* The interface names the operator may pass (Args.interface).
Interfaces == {"wg0"}

\* Bytes of a string attribute: header, the string, its NUL, padded to 4.
NlaStrLen(s) == 4 + ((Len(s) + 1 + 3) \div 4) * 4

\* NetlinkMessage::buffer_len: the serialized size of a request.
BufferLen(m) == HeaderLen + GenlHdrLen + NlaStrLen(m.nlas[1].v)

\* NetlinkMessage::from(GenlMessage::from_payload(..)): header.length is 0
\* until finalize is called.
NewMessage(cmd, nlas) ==
    [cmd |-> cmd, nlas |-> nlas, flags |-> {}, family |-> 0, length |-> 0]

\* finalize that leaves header.length as it was.
FinalizeStale(m) == m

\* NetlinkMessage::finalize: header.length := buffer_len().
Finalize(m) == [m EXCEPT !.length = BufferLen(m)]

\* The Phase A request as handed to socket_send.
GetFamilyRequest ==
    Finalize([NewMessage("GetFamily", <<Attr("FamilyName", "wireguard")>>)
                EXCEPT !.flags = {"REQUEST", "ACK"},
                       !.family = GenlIdCtrl])

\* The Phase B request as handed to socket_send.
GetDeviceRequest(ifname, fid) ==
    Finalize([NewMessage("GetDevice", <<Attr("IfName", ifname)>>)
                EXCEPT !.flags = {"REQUEST", "ACK", "DUMP"},
                       !.family = fid])

\* The assertion at the head of socket_send.
SendAssertion(m) == m.length = BufferLen(m)

----------------------------------------------------------------------------
(* socket_recv, one step per blocking receive and per parsed frame. *)

NoReason == [kind |-> "", code |-> 0]
NoRet == [phase |-> "", msgs |-> <<>>]
NotEnded == [frames |-> 0, msgs |-> 0]

\* Frames received so far by the current call.
FramesReceived == Len(Flatten(rx))

\* Accumulate, inserting at the front.
AccumulateFront(msgs, p) ==
    IF p.type = "Inner" THEN <<p.msg>> \o msgs ELSE msgs

\* Accumulate, pushing the payload of every frame.
AccumulateAny(msgs, p) == Append(msgs, p.msg)

\* messages after the match on packet.payload: only an inner message is
\* pushed.
Accumulate(msgs, p) ==
    IF p.type = "Inner" THEN Append(msgs, p.msg) ELSE msgs

\* MatchPayload with the two arms of the match on err.code exchanged.
MatchPayloadSwapped(p) ==
    CASE p.type = "Done" -> "ok"
      [] p.type = "Error" -> IF p.code # 0 THEN "ok" ELSE "err"
      [] OTHER -> "next"

\* MatchPayload without the Done arm: a Done frame falls to the catch-all.
MatchPayloadNoDone(p) ==
    CASE p.type = "Error" -> IF p.code # 0 THEN "err" ELSE "ok"
      [] OTHER -> "next"

\* MatchPayload with a catch-all arm that returns the messages.
MatchPayloadEager(p) ==
    CASE p.type = "Inner" -> "next"
      [] p.type = "Error" -> IF p.code # 0 THEN "err" ELSE "ok"
      [] OTHER -> "ok"

\* MatchPayload taking an Error frame without a code for an ordinary frame.
MatchPayloadAckSkipped(p) ==
    CASE p.type = "Done" -> "ok"
      [] p.type = "Error" -> IF p.code # 0 THEN "err" ELSE "next"
      [] OTHER -> "next"

\* How the match on packet.payload leaves the loop: "ok" (return
\* Ok(messages)), "err" (return Err), or "next" (fall through to the offset
\* update).
MatchPayload(p) ==
    CASE p.type = "Done" -> "ok"
      [] p.type = "Error" -> IF p.code # 0 THEN "err" ELSE "ok"
      [] OTHER -> "next"

\* Advance without the reset of offset before the break.
AdvanceNoReset(off, p, len) ==
    IF off + p.length = len \/ p.length = 0
    THEN [offset |-> off + p.length, again |-> FALSE]
    ELSE [offset |-> off + p.length, again |-> TRUE]

\* The offset update that ends an iteration of the inner loop: the new
\* offset, and whether the inner loop goes on (no break).
Advance(off, p, len) ==
    IF off + p.length = len \/ p.length = 0
    THEN [offset |-> 0, again |-> FALSE]
    ELSE [offset |-> off + p.length, again |-> TRUE]

\* What ended records when a call ends with msgs accumulated.
Ending(msgs) == [frames |-> FramesReceived, msgs |-> Len(msgs)]

\* Fail, handing the messages accumulated so far to the caller.
FailPartial(kind, code) ==
    /\ pc' = "failed"
    /\ reason' = [kind |-> kind, code |-> code]
    /\ buf' = <<>>
    /\ offset' = 0
    /\ messages' = <<>>
    /\ rx' = <<>>
    /\ parsed' = {}
    /\ ended' = Ending(messages)
    /\ ret' = [phase |-> phase, msgs |-> messages]
    /\ UNCHANGED <<phase, family_id, sent, out, interface, late, arg, res>>

\* The transaction aborts: a panic unwinds real_main, which drops the locals
\* of socket_recv; nothing is handed to the caller and nothing is printed.
Fail(kind, code) ==
    /\ pc' = "failed"
    /\ reason' = [kind |-> kind, code |-> code]
    /\ buf' = <<>>
    /\ offset' = 0
    /\ messages' = <<>>
    /\ rx' = <<>>
    /\ parsed' = {}
    /\ ended' = Ending(messages)
    /\ UNCHANGED <<phase, ret, family_id, sent, out, interface, late, arg, res>>

\* socket.recv_from returns datagram d.
Recv ==
    /\ pc = "recv"
    /\ late # "queued"
    /\ \E d \in Datagrams(phase, MaxFrames - FramesReceived) :
          /\ buf' = d
          /\ rx' = Append(rx, d)
          /\ parsed' = {}
    /\ pc' = "parse"
    /\ UNCHANGED <<phase, offset, messages, ret, family_id, sent, out, reason,
                   ended, interface, late, arg, res>>

\* socket.recv_from fails: the ? operator returns the error and the caller's
\* unwrap panics.
RecvError ==
    /\ pc = "recv"
    /\ Fail("Recv", 0)

\* One iteration of the inner loop on buf[offset..].
Parse ==
    /\ pc = "parse"
    /\ IF offset > DgLen(buf) THEN Fail("Slice", 0)
       ELSE \E p \in Deserialize(buf, offset) :
          IF ~p.ok THEN Fail("Decode", 0)
          ELSE IF MatchPayload(p) = "err" THEN Fail("Protocol", p.code)
          ELSE IF MatchPayload(p) = "ok" THEN
              /\ ret' = [phase |-> phase, msgs |-> messages]
              /\ pc' = IF phase = "A" THEN "extract" ELSE "render"
              /\ parsed' = parsed \cup {offset}
              /\ ended' = Ending(messages)
              /\ UNCHANGED <<phase, buf, offset, messages, family_id, sent,
                             out, reason, rx, interface, late, arg, res>>
          ELSE
              /\ messages' = Accumulate(messages, p)
              /\ offset' = Advance(offset, p, DgLen(buf)).offset
              /\ pc' = IF Advance(offset, p, DgLen(buf)).again
                       THEN "parse" ELSE "recv"
              /\ parsed' = parsed \cup {offset}
              /\ UNCHANGED <<phase, buf, ret, family_id, sent, out, reason,
                             rx, ended, interface, late, arg, res>>

----------------------------------------------------------------------------
(* real_main. *)

RECURSIVE FlatAttrs(_)
\* messages.into_iter().flat_map(|msg| msg.payload.nlas.into_iter())
FlatAttrs(msgs) ==
    IF msgs = <<>> THEN <<>> ELSE Head(msgs).nlas \o FlatAttrs(Tail(msgs))

\* FindFamilyId keeping the last FamilyId attribute.
FindFamilyIdLast(msgs) ==
    LET as == FlatAttrs(msgs)
        I  == {i \in 1..Len(as) : as[i].a = "FamilyId"}
    IN IF I = {} THEN None
       ELSE Some(as[CHOOSE i \in I : \A j \in I : i >= j].v)

\* find_map over the FamilyId attributes: the first one, if any.
FindFamilyId(msgs) ==
    LET as == FlatAttrs(msgs)
        I  == {i \in 1..Len(as) : as[i].a = "FamilyId"}
    IN IF I = {} THEN None
       ELSE Some(as[CHOOSE i \in I : \A j \in I : i <= j].v)

\* Times the clock may show when the output is printed.
Times == {30, 90}

\* The state real_main starts in, but for pc, arg and res.
InitLocals ==
    /\ phase = "A"
    /\ buf = <<>>
    /\ offset = 0
    /\ messages = <<>>
    /\ ret = NoRet
    /\ family_id = 0
    /\ sent = <<>>
    /\ out = <<>>
    /\ reason = NoReason
    /\ rx = <<>>
    /\ parsed = {}
    /\ ended = NotEnded
    /\ interface \in Interfaces
    /\ late = "none"

Init ==
    /\ pc = "sendA"
    /\ InitLocals
    /\ arg = <<>>
    /\ res = <<>>

\* socket_send(message): the assertion, then socket.send, which may fail;
\* on success real_main enters socket_recv with fresh locals.
Send(m, ph) ==
    IF ~SendAssertion(m) THEN Fail("Assert", 0)
    ELSE \E sendOk \in BOOLEAN :
        IF ~sendOk THEN Fail("Send", 0)
        ELSE /\ sent' = Append(sent, m)
             /\ phase' = ph
             /\ pc' = "recv"
             /\ buf' = <<>>
             /\ offset' = 0
             /\ messages' = <<>>
             /\ rx' = <<>>
             /\ parsed' = {}
             /\ ret' = NoRet
             /\ ended' = NotEnded
             /\ UNCHANGED <<family_id, out, reason, interface, late, arg, res>>

\* SendA, sending the GetDevice request along with the GetFamily request.
SendAPipelined ==
    /\ pc = "sendA"
    /\ sent' = <<GetFamilyRequest, GetDeviceRequest(interface, 0)>>
    /\ pc' = "recv"
    /\ UNCHANGED <<phase, buf, offset, messages, ret, family_id, out, reason,
                   rx, parsed, ended, interface, late, arg, res>>

\* The locals of real_main and socket_recv, which the function
\* specifications leave alone.
locals == <<phase, buf, offset, messages, ret, family_id, sent, out, reason,
            rx, parsed, ended, interface, late>>

\* Phase A: build and send the GetFamily request.
SendA ==
    /\ pc = "sendA"
    /\ Send(GetFamilyRequest, "A")

\* Extract with unwrap_or_default in place of unwrap.
ExtractOrDefault ==
    /\ pc = "extract"
    /\ family_id' = IF FindFamilyId(ret.msgs) = None THEN 0
                    ELSE FindFamilyId(ret.msgs)[1]
    /\ pc' = "sendB"
    /\ UNCHANGED <<phase, buf, offset, messages, ret, sent, out,
                   reason, rx, parsed, ended, interface, late, arg, res>>

\* After Phase A's socket_recv: extract the family id and unwrap it.
Extract ==
    /\ pc = "extract"
    /\ IF FindFamilyId(ret.msgs) = None THEN Fail("Resolution", 0)
       ELSE /\ family_id' = FindFamilyId(ret.msgs)[1]
            /\ pc' = "sendB"
            /\ UNCHANGED <<phase, buf, offset, messages, ret, sent, out,
                           reason, rx, parsed, ended, interface, late, arg, res>>

\* Phase B: build and send the GetDevice request.
SendB ==
    /\ pc = "sendB"
    /\ Send(GetDeviceRequest(interface, family_id), "B")

\* After Phase B's socket_recv: print every message.
Render ==
    /\ pc = "render"
    /\ \E now \in Times : out' = PrintMessages(ret.msgs, now)
    /\ pc' = "done"
    /\ UNCHANGED <<phase, buf, offset, messages, ret, family_id, sent,
                   reason, rx, parsed, ended, interface, late, arg, res>>

Next == SendA \/ Recv \/ RecvError \/ Parse \/ Extract \/ SendB \/ Render

Spec == Init /\ [][Next]_vars

----------------------------------------------------------------------------
(* Properties. *)

Returned == pc \in {"extract", "sendB", "render", "done"}

\* The call that is running or has just returned received only frames whose
\* declared length is their size and whose payload decodes.
AllWellFramed == \A i \in 1..Len(Flatten(rx)) : WellFramed(Flatten(rx)[i])

\* The frames received end in a Done frame, the only Done frame among them.
DoneOnlyLast ==
    LET fs == Flatten(rx)
    IN /\ fs # <<>>
       /\ fs[Len(fs)].type = "Done"
       /\ \A i \in 1..(Len(fs) - 1) : fs[i].type # "Done"

RECURSIVE RecvSingle(_, _, _)
\* The result of socket_recv when the single datagram d is all it receives:
\* the inner loop run from offset off with msgs accumulated.
RecvSingle(d, off, msgs) ==
    LET p == CHOOSE q \in Deserialize(d, off) : TRUE
        a == Advance(off, p, DgLen(d))
    IN IF ~p.ok \/ MatchPayload(p) = "err" THEN [st |-> "err", msgs |-> <<>>]
       ELSE IF MatchPayload(p) = "ok" THEN [st |-> "ok", msgs |-> msgs]
       ELSE IF a.again THEN RecvSingle(d, a.offset, Accumulate(msgs, p))
       ELSE [st |-> "more", msgs |-> Accumulate(msgs, p)]

\* C1: when the well-framed frames of a response that ends in its only Done
\* frame arrive split at frame boundaries over one or more datagrams, the
\* list socket_recv returns is the list it returns when the same frames
\* arrive in a single datagram.
C1_Reassembly ==
    (pc \in {"extract", "render"} /\ AllWellFramed /\ DoneOnlyLast)
        => RecvSingle(Flatten(rx), 0, <<>>) = [st |-> "ok", msgs |-> ret.msgs]

C1_Witness ==
    /\ pc = "render"
    /\ AllWellFramed /\ DoneOnlyLast
    /\ Len(rx) = 3
    /\ Len(ret.msgs) = 2
    /\ ret.msgs[1] # ret.msgs[2]

\* The call is about to parse the only frame of the only datagram it has
\* received, a well-framed Error frame.
SingleErrorFrame ==
    /\ pc = "parse" /\ offset = 0
    /\ rx = <<buf>> /\ Len(buf) = 1
    /\ buf[1].type = "Error" /\ WellFramed(buf[1])

\* C2: a response whose single frame is an Error frame with a code makes
\* the call, and the transaction, fail with that code; with the code absent
\* the call returns successfully with no message.
C2_ErrorPropagation ==
    [][SingleErrorFrame =>
          IF buf[1].code # 0
          THEN /\ pc' = "failed"
               /\ reason' = [kind |-> "Protocol", code |-> buf[1].code]
               /\ ret' = NoRet
          ELSE /\ pc' = IF phase = "A" THEN "extract" ELSE "render"
               /\ ret' = [phase |-> phase, msgs |-> <<>>]]_vars

C2_Witness ==
    /\ pc = "failed"
    /\ reason.kind = "Protocol" /\ reason.code \in ErrCodes
    /\ ended = [frames |-> 1, msgs |-> 0]

\* C3: a receive that fails (Error frame with a code, transport error,
\* decode or framing error) hands no message to the caller, whatever it had
\* accumulated, and nothing is printed; lines are printed only once Phase
\* B's receive has returned successfully.
C3_NoPartialResults ==
    /\ (pc = "failed" /\ reason.kind \in {"Protocol", "Recv", "Decode", "Slice"})
          => (ret = NoRet /\ out = <<>>)
    /\ out # <<>> => (pc = "done" /\ ret.phase = "B")
    /\ pc = "failed" => out = <<>>

C3_Witness ==
    /\ pc = "failed"
    /\ reason.kind = "Protocol"
    /\ phase = "B"
    /\ ended.msgs >= 1

\* C4: requests are sent one at a time: the GetFamily request from the
\* initial position, and the GetDevice request only once Phase A's receive
\* has returned and a family id was extracted; from then on every receive
\* belongs to Phase B.
C4_SingleOutstanding ==
    [][/\ sent' # sent =>
            \/ pc = "sendA" /\ sent = <<>> /\ sent' = <<GetFamilyRequest>>
            \/ /\ pc = "sendB" /\ Len(sent) = 1 /\ Len(sent') = 2
               /\ ret.phase = "A" /\ FindFamilyId(ret.msgs) = Some(family_id)
               /\ sent'[2].cmd = "GetDevice" /\ sent'[2].family = family_id
       /\ Len(sent') = 2 => phase' = "B"
       /\ phase = "B" => phase' = "B"
       /\ (phase' = "A" /\ pc' \in {"recv", "parse"}) => Len(sent') = 1]_vars

C4_Witness ==
    /\ phase = "B" /\ pc = "parse"
    /\ Len(sent) = 2

RECURSIVE InnerBefore(_)
\* The inner messages of the frames fs that precede the first terminator.
InnerBefore(fs) ==
    IF fs = <<>> \/ IsTerminator(Head(fs)) THEN <<>>
    ELSE IF Head(fs).type = "Inner"
         THEN <<Head(fs).msg>> \o InnerBefore(Tail(fs))
         ELSE InnerBefore(Tail(fs))

\* C5: the list socket_recv returns holds the inner messages delivered
\* before the terminator, each once and in delivery order, within a
\* datagram and across datagrams; so does the accumulator between two
\* receives.
C5_OrderPreserved ==
    AllWellFramed =>
        /\ pc \in {"extract", "render"} => ret.msgs = InnerBefore(Flatten(rx))
        /\ pc = "recv" => messages = InnerBefore(Flatten(rx))

C5_Witness ==
    /\ pc = "render" /\ AllWellFramed
    /\ Len(rx) = 2 /\ Len(rx[1]) = 2
    /\ Len(ret.msgs) = 2
    /\ ret.msgs[1] # ret.msgs[2]

\* The current frame: the frame of buf that starts at offset (defined when
\* one does).
Cur == buf[FrameAt(buf, offset)]
AtFrame == pc = "parse" /\ FrameAt(buf, offset) # 0

\* C6: a frame whose header declares length 0 ends the batch of its
\* datagram: the offset is reset to 0 and the next datagram is received.
C6_ZeroLengthEndsBatch ==
    [][(AtFrame /\ Cur.length = 0) => (pc' = "recv" /\ offset' = 0)]_vars

\* C7: when Phase A's receive has returned and none of its messages carries
\* a FamilyId attribute, the transaction fails and the GetDevice request is
\* not sent; a failed transaction takes no further step.
C7_ResolutionFailure ==
    [][/\ (pc = "extract" /\ FindFamilyId(ret.msgs) = None) =>
              /\ pc' = "failed"
              /\ reason' = [kind |-> "Resolution", code |-> 0]
              /\ sent' = sent /\ Len(sent) = 1
       /\ pc # "failed"]_vars

C7_Witness ==
    /\ pc = "failed"
    /\ reason.kind = "Resolution"
    /\ ended.msgs >= 1
    /\ Len(sent) = 1

\* C8: in Phase B an inner message whose type differs from the family id
\* resolved in Phase A makes the transaction fail.
C8_FamilyIdMatch ==
    [][(AtFrame /\ phase = "B" /\ Cur.type = "Inner" /\ WellFramed(Cur)
          /\ Cur.msg.mtype # family_id) => pc' = "failed"]_vars

----------------------------------------------------------------------------
(* wg_allowed_ips as a function: SpecIps applies it to every input within  *)
(* the bounds.                                                             *)

\* Sequences over S of length at most n.
SeqUpTo(S, n) == UNION {[1..k -> S] : k \in 0..n}

\* WgAllowedIpAttrs an entry may hold.
IpAttrs ==
    {Attr("IpAddr", "10.0.0.0"), Attr("IpAddr", "10.0.0.1"),
     Attr("Cidr", 24), Attr("Family", 2)}

InitIps ==
    /\ pc = "call"
    /\ InitLocals
    /\ arg \in SeqUpTo(SeqUpTo(IpAttrs, MaxIpAttrs), MaxIps)
    /\ res = <<>>

CallAllowedIps ==
    /\ pc = "call"
    /\ res' = wg_allowed_ips(arg)
    /\ pc' = "returned"
    /\ UNCHANGED <<locals, arg>>

SpecIps == InitIps /\ [][CallAllowedIps]_vars

\* The entry holds an address attribute and a prefix-length attribute.
HasBoth(e) ==
    /\ \E i \in 1..Len(e) : e[i].a = "IpAddr"
    /\ \E i \in 1..Len(e) : e[i].a = "Cidr"

\* C9: the output of wg_allowed_ips holds, in input order, one entry for
\* each input entry that has both an address and a prefix length, and none
\* for the others; it is never longer than the input.
C9_AllowedIpFilter ==
    pc = "returned" =>
        LET kept == SelectSeq(arg, HasBoth)
        IN /\ Len(res) = Len(kept)
           /\ Len(res) <= Len(arg)
           /\ \A j \in 1..Len(kept) :
                 res[j] = LastOf(kept[j], "IpAddr")[1] \o "/"
                            \o ToString(LastOf(kept[j], "Cidr")[1])

C9_Witness ==
    /\ pc = "returned"
    /\ Len(arg) = 2
    /\ HasBoth(arg[1]) /\ ~HasBoth(arg[2]) /\ arg[2] # <<>>
    /\ res = <<"10.0.0.0/24">>

----------------------------------------------------------------------------
(* What a run writes, as a function of the messages of the Phase B         *)
(* response: the lines the print loop writes on stdout and the lines        *)
(* socket_recv writes through the log macros (env_logger writes them on     *)
(* stderr when RUST_LOG enables their level).  SpecKeys runs two responses   *)
(* that differ only in their secret key bytes.  The transaction             *)
(* specification leaves the log lines out: they change none of its state.   *)

\* The levels RUST_LOG may select; env_logger's default shows errors only.
LogLevels == {"error", "debug", "trace"}

\* The lines socket_recv logs for a response holding the messages msgs:
\* log::trace! writes the bytes of the datagram, log::debug! writes every
\* parsed packet with all its attributes.
LogLines(level, msgs) ==
    (IF level = "trace" THEN <<[macro |-> "trace", shown |-> msgs]>> ELSE <<>>)
    \o (IF level \in {"debug", "trace"}
        THEN [i \in 1..Len(msgs) |-> [macro |-> "debug", shown |-> <<msgs[i]>>]]
        ELSE <<>>)

\* Everything a run writes.
RunOutput(level, msgs, now) ==
    [stdout |-> PrintMessages(msgs, now), stderr |-> LogLines(level, msgs)]

\* Peers a device message may list.
PeerSamples ==
    { <<Attr("PublicKey", Key(2)), Attr("PresharedKey", Key(7)),
        Attr("Endpoint", "203.0.113.5:51820")>>,
      <<Attr("PresharedKey", Key(8)), Attr("PublicKey", Key(2)),
        Attr("AllowedIps", << <<Attr("IpAddr", "10.0.0.0"),
                                Attr("Cidr", 24)>> >>)>>,
      <<Attr("PublicKey", Key(3)), Attr("PersistentKeepalive", 25),
        Attr("LastHandshake", 60)>> }

\* WgDeviceAttrs a device message may hold.
DevAttrs ==
    {Attr("IfName", "wg0"), Attr("PrivateKey", Key(9)),
     Attr("PrivateKey", Key(200)), Attr("PublicKey", Key(1)),
     Attr("ListenPort", 51820), Attr("Fwmark", 0)}
    \cup {Attr("Peers", <<p>>) : p \in PeerSamples}

DeviceMsg(nlas) == [mtype |-> 17, nlas |-> nlas]

\* A peer with the bytes of its preshared key replaced by key.
WithPresharedKey(peer, key) ==
    [i \in 1..Len(peer) |->
        IF peer[i].a = "PresharedKey" THEN Attr("PresharedKey", key)
        ELSE peer[i]]

\* Device attributes with the bytes of every PrivateKey and PresharedKey
\* replaced by key.
WithSecrets(nlas, key) ==
    [i \in 1..Len(nlas) |->
        IF nlas[i].a = "PrivateKey" THEN Attr("PrivateKey", key)
        ELSE IF nlas[i].a = "Peers"
            THEN Attr("Peers", [j \in 1..Len(nlas[i].v) |->
                                   WithPresharedKey(nlas[i].v[j], key)])
        ELSE nlas[i]]

\* Keys the second run may see in place of the first run's secrets.
OtherSecrets == {Key(100), Key(9)}

InitKeys ==
    /\ pc = "call"
    /\ InitLocals
    /\ \E nlas \in SeqUpTo(DevAttrs, MaxDevAttrs), key \in OtherSecrets,
          level \in LogLevels :
          arg = [level |-> level,
                 runs |-> << <<DeviceMsg(nlas)>>,
                             <<DeviceMsg(WithSecrets(nlas, key))>> >>]
    /\ res = <<>>

\* Both runs, at the same log level and clock time.
PrintBoth ==
    /\ pc = "call"
    /\ \E now \in Times :
          res' = <<RunOutput(arg.level, arg.runs[1], now),
                   RunOutput(arg.level, arg.runs[2], now)>>
    /\ pc' = "returned"
    /\ UNCHANGED <<locals, arg>>

SpecKeys == InitKeys /\ [][PrintBoth]_vars

\* The two runs differ, in the bytes of a device PrivateKey or of a peer's
\* PresharedKey only.
SecretsDiffer ==
    /\ arg.runs[1] # arg.runs[2]
    /\ \E i \in 1..Len(arg.runs[1][1].nlas) :
          arg.runs[1][1].nlas[i].a \in {"PrivateKey", "Peers"}

\* C10: two runs whose responses differ only in the bytes of the device
\* PrivateKey and of the peers' PresharedKey write the same output.
C10_SecretsNotSurfaced ==
    pc = "returned" => res[1] = res[2]

\* The lines printed on stdout do not depend on the secret bytes.
StdoutIndependent ==
    pc = "returned" => res[1].stdout = res[2].stdout

StdoutIndependentWitness ==
    /\ pc = "returned"
    /\ SecretsDiffer
    /\ Len(res[1].stdout) >= 3

----------------------------------------------------------------------------
(* The transaction against a responsive kernel: every datagram is          *)
(* well-framed, and each call is sent a terminator before the frame budget *)
(* of the model runs out.                                                  *)

\* Well-framed datagrams of at most n frames; a datagram of n frames, the
\* last the call can be sent, holds a terminator.
ResponsiveDatagrams(ph, n) ==
    {d \in UNION {[1..k -> {f \in Frames(ph) : WellFramed(f)}] : k \in 1..n} :
        Len(d) = n => \E i \in 1..n : IsTerminator(d[i])}

\* socket.recv_from returns a datagram of a responsive kernel.
RecvResponsive ==
    /\ pc = "recv"
    /\ late # "queued"
    /\ \E d \in ResponsiveDatagrams(phase, MaxFrames - FramesReceived) :
          /\ buf' = d
          /\ rx' = Append(rx, d)
          /\ parsed' = {}
    /\ pc' = "parse"
    /\ UNCHANGED <<phase, offset, messages, ret, family_id, sent, out, reason,
                   ended, interface, late, arg, res>>

\* The steps real_main takes by itself: everything but the receive.
Step == SendA \/ Parse \/ Extract \/ SendB \/ Render

NextLive == Step \/ RecvResponsive \/ RecvError

\* The single thread always runs when it can, and the blocking receive
\* returns once the kernel has something to deliver.
SpecLive ==
    Init /\ [][NextLive]_vars /\ WF_vars(Step) /\ WF_vars(RecvResponsive)

\* C11: against a responsive kernel the transaction eventually completes or
\* fails, and at every position but the receive call real_main can take a
\* step.
C11_Terminates ==
    /\ <>(pc \in {"done", "failed"})
    /\ [](pc \notin {"recv", "done", "failed"} => ENABLED Step)

C11_Witness ==
    /\ pc = "done"
    /\ Len(rx) = 2
    /\ out # <<>>

----------------------------------------------------------------------------
(* The exits of the receive loop.                                          *)

\* The step is the successful return of socket_recv.
ReturnsOk == pc = "parse" /\ pc' \in {"extract", "render"}

\* The frame being parsed is well-framed, is no terminator, and ends exactly
\* at the end of the datagram.
ConsumesExactly ==
    /\ AtFrame
    /\ WellFramed(Cur)
    /\ ~IsTerminator(Cur)
    /\ offset + Cur.length = DgLen(buf)

\* C12: socket_recv returns success only on parsing a Done frame or an Error
\* frame without a code; exactly consuming a datagram without a terminator
\* keeps the call running: the accumulated messages are kept, extended by
\* the frame just parsed, and the next step is another receive, which leaves
\* the messages alone.
C12_ReceiveLoopExit ==
    [][/\ ReturnsOk =>
            /\ \E p \in Deserialize(buf, offset) :
                  /\ p.ok
                  /\ p.type = "Done" \/ (p.type = "Error" /\ p.code = 0)
            /\ ret'.msgs = messages
       /\ ConsumesExactly =>
            /\ pc' = "recv"
            /\ ret' = NoRet
            /\ Len(messages') >= Len(messages)
            /\ SubSeq(messages', 1, Len(messages)) = messages
       /\ (pc = "recv" /\ pc' = "parse") =>
            /\ messages' = messages
            /\ Len(rx') = Len(rx) + 1]_vars

C12_Witness ==
    /\ pc = "render"
    /\ Len(rx) = 2
    /\ \A i \in 1..Len(rx[1]) : WellFramed(rx[1][i]) /\ ~IsTerminator(rx[1][i])
    /\ Len(ret.msgs) = 2
    /\ rx[1][Len(rx[1])].type = "Inner"
    /\ rx[2][1].type = "Inner"

\* The frame being parsed is a well-framed terminator.
AtTerminator == AtFrame /\ WellFramed(Cur) /\ IsTerminator(Cur)

\* C13: the step that parses a terminator ends the call at once, with a
\* result fixed by that frame and the messages accumulated before it; no
\* offset behind it has been parsed, and nothing of the datagram is parsed
\* after the call has ended.
C13_FirstTerminator ==
    [][/\ AtTerminator =>
            /\ pc' \notin {"parse", "recv"}
            /\ IF Cur.type = "Error" /\ Cur.code # 0
               THEN /\ pc' = "failed"
                    /\ reason' = [kind |-> "Protocol", code |-> Cur.code]
               ELSE /\ pc' = IF phase = "A" THEN "extract" ELSE "render"
                    /\ ret' = [phase |-> phase, msgs |-> messages]
                    /\ buf' = buf
                    /\ \A o \in parsed' : o <= offset
       /\ pc # "parse" => parsed' \subseteq parsed]_vars

C13_Witness ==
    /\ pc = "render"
    /\ Len(buf) = 3
    /\ buf[1].type = "Inner" /\ WellFramed(buf[1])
    /\ buf[2] = DoneFrame
    /\ buf[3] = ErrorFrame(-19)
    /\ Len(ret.msgs) = 1
    /\ parsed = {0, buf[1].size}

----------------------------------------------------------------------------
(* Framing errors.                                                         *)

\* The frame being parsed declares a nonzero length that does not fit the
\* datagram: it is longer than the bytes that remain, or it ends before the
\* end of the datagram and leaves less than a header.
Inconsistent ==
    /\ AtFrame
    /\ Cur.length # 0
    /\ \/ Cur.length > DgLen(buf) - offset
       \/ /\ offset + Cur.length < DgLen(buf)
          /\ DgLen(buf) - (offset + Cur.length) < HeaderLen

\* The step fails, or it goes on to a parse that has less than a header to
\* read.
FailsOrRunsShort ==
    \/ pc' = "failed"
    \/ pc' = "parse" /\ buf' = buf /\ DgLen(buf) - offset' < HeaderLen

\* A parse with less than a header to read fails.
ShortFails == (pc = "parse" /\ DgLen(buf) - offset < HeaderLen) => pc' = "failed"

\* A frame longer than the bytes that remain adds nothing to the messages.
NoTruncated ==
    (AtFrame /\ Cur.length > DgLen(buf) - offset) =>
        (pc' = "failed" /\ messages' = <<>>)

\* C14: a frame whose nonzero declared length does not fit the datagram
\* makes the transaction fail; while parsing goes on the offset is never
\* behind the end of the datagram, and a frame cut short by the end of the
\* datagram is never accumulated.
C14_FramingErrorsFatal ==
    [][/\ Inconsistent => FailsOrRunsShort
       /\ ShortFails
       /\ NoTruncated
       /\ pc' = "parse" => offset' <= DgLen(buf')]_vars

\* The same for the frames that do not end the call: socket_recv looks at
\* the offset only after a frame that is neither Done nor Error.
FramingFatalWhenAdvanced ==
    [][/\ (Inconsistent /\ ~IsTerminator(Cur)) => FailsOrRunsShort
       /\ ShortFails
       /\ NoTruncated
       /\ pc' = "parse" => offset' <= DgLen(buf')]_vars

FramingFatalWitness ==
    /\ pc = "parse"
    /\ offset > 0
    /\ DgLen(buf) - offset < HeaderLen
    /\ messages # <<>>

----------------------------------------------------------------------------
(* The construction of the two requests, statement by statement: SpecSend  *)
(* builds each request for every interface name within the bound.          *)

RECURSIVE NameOf(_)
\* An interface name of n characters.
NameOf(n) == IF n = 0 THEN "" ELSE NameOf(n - 1) \o "w"

InitSend ==
    /\ pc = "new"
    /\ InitLocals
    /\ arg \in [req : {"A", "B"},
                ifname : {NameOf(n) : n \in 0..MaxNameLen},
                fid : FamilyIds]
    /\ res = <<>>

\* NetlinkMessage::from(GenlMessage::from_payload(..)).
NewRequest ==
    /\ pc = "new"
    /\ res' = IF arg.req = "A"
              THEN [NewMessage("GetFamily", <<Attr("FamilyName", "wireguard")>>)
                      EXCEPT !.family = GenlIdCtrl]
              ELSE NewMessage("GetDevice", <<Attr("IfName", arg.ifname)>>)
    /\ pc' = "flags"
    /\ UNCHANGED <<locals, arg>>

\* message.header.flags = ..
SetFlags ==
    /\ pc = "flags"
    /\ res' = [res EXCEPT !.flags = IF arg.req = "A"
                                    THEN {"REQUEST", "ACK"}
                                    ELSE {"REQUEST", "ACK", "DUMP"}]
    /\ pc' = IF arg.req = "A" THEN "finalize" ELSE "family"
    /\ UNCHANGED <<locals, arg>>

\* payload.set_resolved_family_id(family_id), in Phase B only.
SetResolvedFamilyId ==
    /\ pc = "family"
    /\ res' = [res EXCEPT !.family = arg.fid]
    /\ pc' = "finalize"
    /\ UNCHANGED <<locals, arg>>

\* message.finalize().
FinalizeRequest ==
    /\ pc = "finalize"
    /\ res' = Finalize(res)
    /\ pc' = "send"
    /\ UNCHANGED <<locals, arg>>

\* socket_send(&mut socket, &message): the assertion on header.length.
HandToSend ==
    /\ pc = "send"
    /\ pc' = IF SendAssertion(res) THEN "returned" ELSE "failed"
    /\ UNCHANGED <<locals, arg, res>>

NextSend ==
    NewRequest \/ SetFlags \/ SetResolvedFamilyId \/ FinalizeRequest
    \/ HandToSend

SpecSend == InitSend /\ [][NextSend]_vars

\* C15: the message handed to socket_send has header.length equal to its
\* serialized size and is the request the transaction sends, the assertion
\* never fails, and the message does not change between finalize and
\* socket_send.
C15_HeaderLengthOnSend ==
    [][/\ pc' \in {"send", "returned"} =>
            /\ res'.length = BufferLen(res')
            /\ res' = IF arg.req = "A" THEN GetFamilyRequest
                      ELSE GetDeviceRequest(arg.ifname, arg.fid)
       /\ pc = "send" => res' = res
       /\ pc' # "failed"]_vars

C15_Witness ==
    /\ pc = "returned"
    /\ arg.req = "B"
    /\ Len(arg.ifname) = MaxNameLen
    /\ res.length = BufferLen(res)
    /\ res.length > HeaderLen + GenlHdrLen + MaxNameLen
    /\ res.family = arg.fid
    /\ "DUMP" \in res.flags

----------------------------------------------------------------------------
(* The family id of the Phase B request.                                   *)

\* Attribute j of frame i of the frames received is a FamilyId attribute of
\* an inner message.
IsFamilyIdAt(fs, i, j) ==
    /\ fs[i].type = "Inner"
    /\ j \in 1..Len(fs[i].msg.nlas)
    /\ fs[i].msg.nlas[j].a = "FamilyId"

\* id is the first FamilyId attribute delivered before the terminator:
\* frames in receive order, attributes in their order inside a frame.
FirstDelivered(fs, id) ==
    \E i \in 1..Len(fs) : \E j \in 1..Len(fs[i].msg.nlas) :
        /\ IsFamilyIdAt(fs, i, j)
        /\ fs[i].msg.nlas[j].v = id
        /\ \A k \in 1..(i - 1) : ~IsTerminator(fs[k])
        /\ \A k \in 1..i : \A l \in 1..Len(fs[k].msg.nlas) :
              (k < i \/ l < j) => ~IsFamilyIdAt(fs, k, l)

\* C16: the family id taken from Phase A is the first FamilyId attribute in
\* delivery order, and the Phase B request is tagged with it.
C16_FirstFamilyIdWins ==
    /\ pc = "sendB" => FirstDelivered(Flatten(rx), family_id)
    /\ Len(sent) = 2 => sent[2].family = family_id

C16_Witness ==
    /\ pc = "sendB"
    /\ Len(ret.msgs) = 2
    /\ ret.msgs[1].nlas = <<Attr("FamilyName", "wireguard")>>
    /\ ret.msgs[2].nlas = <<Attr("FamilyId", 18), Attr("FamilyId", 17)>>
    /\ family_id = 18

----------------------------------------------------------------------------
(* The two phases on one socket: SpecShared lets the kernel send one more  *)
(* datagram in answer to the Phase A request after the socket_recv of      *)
(* Phase A has returned.                                                    *)

\* The acknowledgement the Phase A request asks for with NLM_F_ACK, arriving
\* after another terminator.
LateDatagram == <<ErrorFrame(0)>>

\* The kernel queues the late datagram on the socket.
KernelSendsLate ==
    /\ pc \in {"extract", "sendB"}
    /\ late = "none"
    /\ late' = "queued"
    /\ UNCHANGED <<pc, phase, buf, offset, messages, ret, family_id, sent, out,
                   reason, rx, parsed, ended, interface, arg, res>>

\* socket.recv_from returns the datagram at the head of the socket's queue.
RecvLate ==
    /\ pc = "recv"
    /\ late = "queued"
    /\ buf' = LateDatagram
    /\ rx' = Append(rx, LateDatagram)
    /\ parsed' = {}
    /\ late' = "received"
    /\ pc' = "parse"
    /\ UNCHANGED <<phase, offset, messages, ret, family_id, sent, out, reason,
                   ended, interface, arg, res>>

NextShared == Next \/ KernelSendsLate \/ RecvLate

SpecShared == Init /\ [][NextShared]_vars

\* C17: the socket_recv of Phase B never returns a result that a frame sent
\* in answer to the Phase A request took part in: a late terminator of
\* Phase A is not taken as the terminator of Phase B.
C17_OnlyPhaseBReplies ==
    (phase = "B" /\ pc \in {"render", "done"}) => late # "received"

----------------------------------------------------------------------------
(* Frames that are neither Done, Error nor an inner message.               *)

IsSkipped(f) == f.type \in {"Noop", "Overrun"}

RECURSIVE Strip(_)
\* The frames fs without the Noop and Overrun frames.
Strip(fs) ==
    IF fs = <<>> THEN <<>>
    ELSE IF IsSkipped(Head(fs)) THEN Strip(Tail(fs))
    ELSE <<Head(fs)>> \o Strip(Tail(fs))

\* The call has returned a list after receiving well-framed frames only.
ReturnedWellFramed == pc \in {"extract", "render"} /\ AllWellFramed

\* C18: a Noop or Overrun frame is not accumulated and does not end the
\* call, the offset moves on by its declared length, and the list a call
\* returns is the list it returns for the same frames without the Noop and
\* Overrun frames.
C18_SkippedFrames ==
    [][/\ (AtFrame /\ WellFramed(Cur) /\ IsSkipped(Cur)) =>
            /\ messages' = messages
            /\ pc' \in {"parse", "recv"}
            /\ pc' = "parse" => offset' = offset + Cur.length
            /\ pc' = "recv" => offset + Cur.length = DgLen(buf)
       /\ ReturnedWellFramed' =>
            RecvSingle(Strip(Flatten(rx')), 0, <<>>) =
                [st |-> "ok", msgs |-> ret'.msgs]]_vars

C18_Witness ==
    /\ pc = "render"
    /\ AllWellFramed
    /\ Len(ret.msgs) = 1
    /\ Len(rx) = 2
    /\ rx[1] = <<OverrunFrame, InnerFrame(17, ret.msgs[1].nlas)>>
    /\ rx[2] = <<DoneFrame>>

----------------------------------------------------------------------------
(* The parse offset and the message list across datagrams.                 *)

\* The step leaves the inner loop for another receive, or is that receive.
BetweenDatagrams ==
    \/ pc = "parse" /\ pc' = "recv"
    \/ pc = "recv" /\ pc' = "parse"

\* C19: the offset is 0 whenever socket_recv is about to receive and when
\* the first frame of a datagram is parsed, and the steps between two
\* datagrams keep every message accumulated so far.
C19_OffsetResetMessagesKept ==
    [][/\ pc' = "recv" => offset' = 0
       /\ (pc' = "parse" /\ parsed' = {}) => offset' = 0
       /\ BetweenDatagrams =>
            /\ Len(messages') >= Len(messages)
            /\ SubSeq(messages', 1, Len(messages)) = messages]_vars

C19_Witness ==
    /\ pc = "parse"
    /\ Len(rx) = 2
    /\ Len(rx[1]) = 2
    /\ parsed = {}
    /\ offset = 0
    /\ Len(messages) = 2
====
